---- MODULE Spec2Model ----
(***************************************************************************)
(* LightbulbController of the Grafana IRM webhook server (api/app.py), the *)
(* gpiod line it drives, the FastAPI handlers that call it and the two     *)
(* launch paths of the process (api/app.py __main__ and api/start.py).     *)
(*                                                                         *)
(* Spec        a caller invokes the controller's methods one after the     *)
(*             other on one controller, with hardware faults injected.     *)
(* ServerSpec  the process: uvicorn's event loop runs the request          *)
(*             handlers, then the process shuts down.                      *)
(***************************************************************************)
EXTENDS Integers, Sequences, FiniteSets, TLC

\* Bounds of the model.
NumTasks == 2
MaxHandles == 2

\* time.sleep(1) in blink, in milliseconds.
BlinkPause == 1000

None == "None"
\* gpio_request = None, and a line nobody holds.
NoHandle == 0
\* The thread that runs the module's top level; request tasks are 1 .. NumTasks.
MainThread == 0
\* The event loop thread is free.
NoTask == -1
Requests == 1 .. NumTasks
Tasks == {MainThread} \cup Requests

\* "app": lightbulb_controller of module api.app, the one the handlers use.
\* "main": lightbulb_controller of module __main__ when app.py is run as a script.
Controllers == {"app", "main"}

LightbulbTypes == {"raspberry_pi", "other"}
Severities == {"critical", "high", "warning", "info", "low", "other", None}
ControlOps == {"turn_on", "turn_off", "blink"}
Ops == ControlOps \cup {"get_status", "cleanup_gpio"}
Endpoints == {"grafana", "test", "led_on", "led_off", "led_blink", "led_status"}
EventTypes == {"", "alert_group_created", "alert_group_resolved"}
Statuses == {"firing", "resolved"}
\* alert_group.status as sent; "missing": the payload has no alert_group.
GroupStatuses == Statuses \cup {"missing"}

VARIABLES
    GPIO_AVAILABLE,     \* import gpiod succeeded
    lightbulb_type,     \* config["lightbulb_type"]
    gpio_initialized,   \* per controller
    gpio_request,       \* per controller: None or the handle of the line request
    line_holder,        \* hardware: the handle that holds the line, or None
    line_value,         \* hardware: the output value of the line
    handles_issued,     \* hardware: line requests granted so far
    ebusy_seen,         \* hardware: a request_lines call found the line held
    pc,                 \* per task: position in its handler / method
    op,                 \* per task: the controller method it runs
    ctrl,               \* per task: the controller it runs it on
    severity,           \* per task: alert_data's alert_group.severity
    result,             \* per task: what the method returned
    writes,             \* per task: the values its set_value calls wrote
    slept,              \* per task: milliseconds spent in time.sleep
    running,            \* the task that occupies the event loop thread
    phase,              \* lifecycle of the process
    launch,             \* how the process was started
    request,            \* per task: the HTTP request it serves
    response,           \* per task: the HTTP answer of its handler
    cleaned,            \* controllers on which cleanup_gpio has completed
    touched,            \* controllers on which turn_on, turn_off, blink or
                        \* cleanup_gpio has been called
    prev_op,            \* per task: the method it called before the current one
    acquired,           \* per task: its current call was granted a line request
    ready,              \* per task: its current call found the controller
                        \* initialized and holding a line request
    life,               \* per controller: "new", then "released" once a
                        \* cleanup_gpio that found it ready is over
    calls               \* per task: controller calls its handler made for its request

vars == <<GPIO_AVAILABLE, lightbulb_type, gpio_initialized, gpio_request,
          line_holder, line_value, handles_issued, ebusy_seen, pc, op, ctrl,
          severity, result, writes, slept, running, phase, launch, request,
          response, cleaned, touched, prev_op, acquired, ready, life, calls>>

config_vars == <<GPIO_AVAILABLE, lightbulb_type, launch>>
hw_vars == <<line_holder, line_value, handles_issued, ebusy_seen>>
ctl_vars == <<gpio_initialized, gpio_request, life>>
http_vars == <<request, response, calls>>
call_vars == <<touched, prev_op, acquired, ready>>

NoRequest == [endpoint |-> None, event_type |-> None, status |-> None]
NoResponse == [code |-> 0, action |-> None]

HttpRequests ==
    [endpoint : {"grafana"}, event_type : EventTypes, status : GroupStatuses]
    \cup [endpoint : Endpoints \ {"grafana"}, event_type : {None}, status : {None}]

----------------------------------------------------------------------------
\* The controller, as functions of the "world" a method sees: the fields of
\* its controller and the state of the line.

World(c) ==
    [init |-> gpio_initialized[c], req |-> gpio_request[c],
     holder |-> line_holder, value |-> line_value,
     issued |-> handles_issued, ebusy |-> ebusy_seen]

\* A handler that lets the exception through (it names a narrower class).
ExceptNarrow(r, fallback) ==
    r

\* "except Exception as e: logger.error(...); return <fallback>"
ExceptException(r, fallback) ==
    IF r = "raise" THEN fallback ELSE r

\* gpiod.request_lines: raises when the line is held (EBUSY) or on any other
\* acquisition fault af; a granted request drives the line to output_value.
request_lines(w, af) ==
    IF af \/ w.holder # NoHandle
    THEN [w |-> [w EXCEPT !.ebusy = @ \/ (w.holder # NoHandle)], ret |-> "raise"]
    ELSE [w |-> [w EXCEPT !.req = w.issued + 1, !.holder = w.issued + 1,
                          !.value = "ACTIVE", !.issued = @ + 1],
          ret |-> "True"]

\* An _init_gpio whose failure leaves gpio_initialized set, so that no later
\* call tries the acquisition again.
init_gpio_sticky(w, af) ==
    IF ~GPIO_AVAILABLE
    THEN [w |-> w, ret |-> "False"]
    ELSE LET r == request_lines(w, af)
         IN IF r.ret = "raise"
            THEN [w |-> [r.w EXCEPT !.init = TRUE], ret |-> "False"]
            ELSE [w |-> [r.w EXCEPT !.init = TRUE], ret |-> "True"]

\* An _init_gpio that keeps the granted request and forgets to set
\* gpio_initialized.
init_gpio_no_flag(w, af) ==
    IF ~GPIO_AVAILABLE
    THEN [w |-> w, ret |-> "False"]
    ELSE LET r == request_lines(w, af)
         IN IF r.ret = "raise"
            THEN [w |-> [r.w EXCEPT !.init = FALSE], ret |-> "False"]
            ELSE [w |-> r.w, ret |-> "True"]

init_gpio(w, af) ==
    IF ~GPIO_AVAILABLE
    THEN [w |-> w, ret |-> "False"]
    ELSE LET r == request_lines(w, af)
         IN IF r.ret = "raise"
            THEN [w |-> [r.w EXCEPT !.init = FALSE],
                  ret |-> ExceptException("raise", "False")]
            ELSE [w |-> [r.w EXCEPT !.init = TRUE], ret |-> "True"]

\* A set_value wrapper that swallows the write fault and reports success.
set_value_swallow(w, value, wf) ==
    IF wf \/ w.holder # w.req
    THEN [w |-> w, ret |-> "True", wrote |-> <<>>]
    ELSE [w |-> [w EXCEPT !.value = value], ret |-> "True", wrote |-> <<value>>]

\* LineRequest.set_value: raises on a write fault wf, else drives the line.
set_value(w, value, wf) ==
    IF wf \/ w.holder # w.req
    THEN [w |-> w, ret |-> "raise", wrote |-> <<>>]
    ELSE [w |-> [w EXCEPT !.value = value], ret |-> "True", wrote |-> <<value>>]

\* A _control_raspberry_pi_light that skips the hardware write when the line
\* already holds the target value.
control_skip_same(w, state, af, wf) ==
    IF ~GPIO_AVAILABLE
    THEN [w |-> w, ret |-> "False", wrote |-> <<>>]
    ELSE LET i == IF ~w.init THEN init_gpio(w, af) ELSE [w |-> w, ret |-> "True"]
         IN IF i.ret # "True" \/ i.w.req = NoHandle
            THEN [w |-> i.w, ret |-> "False", wrote |-> <<>>]
            ELSE IF i.w.value = (IF state THEN "ACTIVE" ELSE "INACTIVE")
            THEN [w |-> i.w, ret |-> "True", wrote |-> <<>>]
            ELSE LET s == set_value(i.w, IF state THEN "ACTIVE" ELSE "INACTIVE", wf)
                 IN [w |-> s.w, ret |-> ExceptException(s.ret, "False"),
                     wrote |-> s.wrote]

control_raspberry_pi_light(w, state, af, wf) ==
    IF ~GPIO_AVAILABLE
    THEN [w |-> w, ret |-> "False", wrote |-> <<>>]
    ELSE LET i == IF ~w.init THEN init_gpio(w, af) ELSE [w |-> w, ret |-> "True"]
         IN IF i.ret = "raise"
            THEN [w |-> i.w, ret |-> ExceptException("raise", "False"), wrote |-> <<>>]
            ELSE IF i.ret = "False"
            THEN [w |-> i.w, ret |-> "False", wrote |-> <<>>]
            ELSE IF i.w.req = NoHandle
            THEN [w |-> i.w, ret |-> "False", wrote |-> <<>>]
            ELSE LET s == set_value(i.w, IF state THEN "ACTIVE" ELSE "INACTIVE", wf)
                 IN [w |-> s.w, ret |-> ExceptException(s.ret, "False"),
                     wrote |-> s.wrote]

turn_on(w, af, wf) ==
    IF lightbulb_type = "raspberry_pi"
    THEN LET r == control_raspberry_pi_light(w, TRUE, af, wf)
         IN [r EXCEPT !.ret = ExceptException(r.ret, "False")]
    ELSE [w |-> w, ret |-> "False", wrote |-> <<>>]

turn_off(w, af, wf) ==
    IF lightbulb_type = "raspberry_pi"
    THEN LET r == control_raspberry_pi_light(w, FALSE, af, wf)
         IN [r EXCEPT !.ret = ExceptException(r.ret, "False")]
    ELSE [w |-> w, ret |-> "False", wrote |-> <<>>]

\* LineRequest.get_value: raises on a read fault rf, else the line's value.
get_value(w, rf) ==
    IF rf \/ w.holder # w.req THEN "raise" ELSE w.value

\* get_status that reports a line not yet requested as "unknown".
get_status_unknown(w, rf) ==
    IF lightbulb_type = "raspberry_pi" /\ w.init /\ w.req # NoHandle /\ GPIO_AVAILABLE
    THEN LET v == get_value(w, rf)
         IN IF v = "raise" THEN "error" ELSE IF v = "ACTIVE" THEN "on" ELSE "off"
    ELSE "unknown"

get_status(w, rf) ==
    IF lightbulb_type = "raspberry_pi"
    THEN IF w.init /\ w.req # NoHandle /\ GPIO_AVAILABLE
         THEN LET v == get_value(w, rf)
              IN IF v = "raise" THEN ExceptException("raise", "error")
                 ELSE IF v = "ACTIVE" THEN "on" ELSE "off"
         ELSE "off"
    ELSE "unknown"

\* A cleanup that drops the request and forgets to clear gpio_initialized.
release_keep_flag(w) ==
    [w EXCEPT !.holder = IF w.req # NoHandle /\ w.holder = w.req THEN NoHandle ELSE @,
              !.req = NoHandle]

\* "del self.gpio_request; self.gpio_request = None; self.gpio_initialized = False":
\* dropping the last reference releases the line request.
release(w) ==
    [w EXCEPT !.holder = IF w.req # NoHandle /\ w.holder = w.req THEN NoHandle ELSE @,
              !.req = NoHandle, !.init = FALSE]

----------------------------------------------------------------------------
\* Steps of the controller's methods, run by task t on controller ctrl[t].

\* A sleep that awaits (asyncio.sleep): the task gives the thread up.
yield_sleep(t) ==
    NoTask

\* time.sleep blocks its thread: the sleeping task keeps the event loop thread.
time_sleep(t) ==
    t

Scheduled(t) ==
    t = MainThread \/ running = t

\* The acquisition outcomes the hardware can produce; the model grants at
\* most MaxHandles requests.
AcquireFaults ==
    IF handles_issued < MaxHandles THEN BOOLEAN ELSE {TRUE}

Entry(o) ==
    CASE o = "blink" -> "blink1"
      [] o = "cleanup_gpio" -> "cleanup"
      [] OTHER -> "run"

Store(c, w) ==
    /\ gpio_initialized' = [gpio_initialized EXCEPT ![c] = w.init]
    /\ gpio_request' = [gpio_request EXCEPT ![c] = w.req]
    /\ line_holder' = w.holder
    /\ line_value' = w.value
    /\ handles_issued' = w.issued
    /\ ebusy_seen' = w.ebusy

Begin(t, o, c, sev) ==
    /\ pc' = [pc EXCEPT ![t] = Entry(o)]
    /\ op' = [op EXCEPT ![t] = o]
    /\ ctrl' = [ctrl EXCEPT ![t] = c]
    /\ severity' = [severity EXCEPT ![t] = sev]
    /\ result' = [result EXCEPT ![t] = "pending"]
    /\ writes' = [writes EXCEPT ![t] = <<>>]
    /\ slept' = [slept EXCEPT ![t] = 0]
    /\ touched' = IF o = "get_status" THEN touched ELSE touched \cup {c}
    /\ prev_op' = [prev_op EXCEPT ![t] = op[t]]
    /\ acquired' = [acquired EXCEPT ![t] = FALSE]
    /\ ready' = [ready EXCEPT ![t] = gpio_initialized[c] /\ gpio_request[c] # NoHandle]

\* The call whose outcome is w was granted a line request.
Granted(w) ==
    w.issued > handles_issued

TurnOn(t) ==
    /\ Scheduled(t)
    /\ pc[t] = "run"
    /\ op[t] = "turn_on"
    /\ \E af \in AcquireFaults, wf \in BOOLEAN :
          LET r == turn_on(World(ctrl[t]), af, wf)
          IN /\ Store(ctrl[t], r.w)
             /\ acquired' = [acquired EXCEPT ![t] = @ \/ Granted(r.w)]
             /\ result' = [result EXCEPT ![t] = r.ret]
             /\ writes' = [writes EXCEPT ![t] = @ \o r.wrote]
    /\ pc' = [pc EXCEPT ![t] = "done"]
    /\ UNCHANGED <<config_vars, http_vars, touched, prev_op, ready, life, op, ctrl,
                   severity, slept, running, phase, cleaned>>

TurnOff(t) ==
    /\ Scheduled(t)
    /\ pc[t] = "run"
    /\ op[t] = "turn_off"
    /\ \E af \in AcquireFaults, wf \in BOOLEAN :
          LET r == turn_off(World(ctrl[t]), af, wf)
          IN /\ Store(ctrl[t], r.w)
             /\ acquired' = [acquired EXCEPT ![t] = @ \/ Granted(r.w)]
             /\ result' = [result EXCEPT ![t] = r.ret]
             /\ writes' = [writes EXCEPT ![t] = @ \o r.wrote]
    /\ pc' = [pc EXCEPT ![t] = "done"]
    /\ UNCHANGED <<config_vars, http_vars, touched, prev_op, ready, life, op, ctrl,
                   severity, slept, running, phase, cleaned>>

BlinkPcs == <<"blink1", "blink2", "blink3", "blink4">>
SleepPcs == <<"sleep1", "sleep2", "sleep3">>

\* blink's return value once its k-th inner call returned r: the inner result
\* is dropped, an exception ends blink in its handler, the fourth call is
\* followed by "return True".
blink_return(k, r) ==
    IF r = "raise" THEN ExceptException("raise", "False")
    ELSE IF k = 4 THEN "True" ELSE "pending"

\* A blink that starts with turn_off: off, on, off, on.
blink_state_inverted(k) ==
    k \in {2, 4}

\* blink's k-th call: turn_on (TRUE) for k = 1, 3 and turn_off for k = 2, 4.
blink_state(k) ==
    k \in {1, 3}

BlinkWrite(t) ==
    /\ Scheduled(t)
    /\ op[t] = "blink"
    /\ \E k \in 1 .. 4 :
          /\ pc[t] = BlinkPcs[k]
          /\ \E af \in AcquireFaults, wf \in BOOLEAN :
                LET r == IF blink_state(k) THEN turn_on(World(ctrl[t]), af, wf)
                         ELSE turn_off(World(ctrl[t]), af, wf)
                    b == blink_return(k, r.ret)
                IN /\ Store(ctrl[t], r.w)
                   /\ acquired' = [acquired EXCEPT ![t] = @ \/ Granted(r.w)]
                   /\ writes' = [writes EXCEPT ![t] = @ \o r.wrote]
                   /\ result' = [result EXCEPT ![t] = b]
                   /\ pc' = [pc EXCEPT ![t] = IF b = "pending" THEN SleepPcs[k]
                                              ELSE "done"]
    /\ UNCHANGED <<config_vars, http_vars, touched, prev_op, ready, life, op, ctrl,
                   severity, slept, running, phase, cleaned>>

BlinkSleep(t) ==
    /\ Scheduled(t)
    /\ op[t] = "blink"
    /\ \E k \in 1 .. 3 :
          /\ pc[t] = SleepPcs[k]
          /\ pc' = [pc EXCEPT ![t] = BlinkPcs[k + 1]]
    /\ slept' = [slept EXCEPT ![t] = @ + BlinkPause]
    /\ running' = IF t = MainThread THEN running ELSE time_sleep(t)
    /\ UNCHANGED <<config_vars, call_vars, hw_vars, ctl_vars, http_vars, op, ctrl, severity,
                   result, writes, phase, cleaned>>

GetStatus(t) ==
    /\ Scheduled(t)
    /\ pc[t] = "run"
    /\ op[t] = "get_status"
    /\ \E rf \in BOOLEAN :
          result' = [result EXCEPT
                        ![t] = ExceptException(get_status(World(ctrl[t]), rf), "error")]
    /\ pc' = [pc EXCEPT ![t] = "done"]
    /\ UNCHANGED <<config_vars, call_vars, hw_vars, ctl_vars, http_vars, op, ctrl, severity,
                   writes, slept, running, phase, cleaned>>

\* A cleanup_gpio that returns early when the inactive write did not succeed.
cleanup_next_strict(r) ==
    IF r = "True" THEN "release" ELSE "done"

\* Where cleanup_gpio goes once _control_raspberry_pi_light returned r: on to
\* the release whatever the boolean, to its except clause on an exception.
cleanup_next(r) ==
    IF r = "raise" THEN "done" ELSE "release"

\* cleanup_gpio, first half: self._control_raspberry_pi_light(False, {}).
CleanupWrite(t) ==
    /\ Scheduled(t)
    /\ pc[t] = "cleanup"
    /\ op[t] = "cleanup_gpio"
    /\ \E af \in AcquireFaults, wf \in BOOLEAN :
          LET r == control_raspberry_pi_light(World(ctrl[t]), FALSE, af, wf)
          IN /\ Store(ctrl[t], r.w)
             /\ acquired' = [acquired EXCEPT ![t] = @ \/ Granted(r.w)]
             /\ writes' = [writes EXCEPT ![t] = @ \o r.wrote]
             /\ result' = [result EXCEPT
                              ![t] = IF r.ret = "raise"
                                     THEN ExceptException("raise", None)
                                     ELSE IF cleanup_next(r.ret) = "done" THEN None
                                     ELSE "pending"]
             /\ pc' = [pc EXCEPT ![t] = cleanup_next(r.ret)]
    /\ UNCHANGED <<config_vars, http_vars, touched, prev_op, ready, life, op, ctrl,
                   severity, slept, running, phase, cleaned>>

\* cleanup_gpio, second half: drop the request, clear the fields, return.
CleanupRelease(t) ==
    /\ Scheduled(t)
    /\ pc[t] = "release"
    /\ op[t] = "cleanup_gpio"
    /\ Store(ctrl[t], release(World(ctrl[t])))
    /\ result' = [result EXCEPT ![t] = None]
    /\ pc' = [pc EXCEPT ![t] = "done"]
    /\ cleaned' = cleaned \cup {ctrl[t]}
    /\ life' = [life EXCEPT ![ctrl[t]] = IF ready[t] THEN "released" ELSE @]
    /\ UNCHANGED <<config_vars, call_vars, http_vars, op, ctrl, severity, writes, slept,
                   running, phase>>

Step(t) ==
    \/ TurnOn(t)
    \/ TurnOff(t)
    \/ BlinkWrite(t)
    \/ BlinkSleep(t)
    \/ GetStatus(t)
    \/ CleanupWrite(t)
    \/ CleanupRelease(t)

----------------------------------------------------------------------------
\* Construction: LightbulbController.__init__ on every controller, the line
\* not requested and at its inactive default.

Construct ==
    /\ GPIO_AVAILABLE \in BOOLEAN
    /\ lightbulb_type \in LightbulbTypes
    /\ gpio_initialized = [c \in Controllers |-> FALSE]
    /\ gpio_request = [c \in Controllers |-> NoHandle]
    /\ line_holder = NoHandle
    /\ line_value = "INACTIVE"
    /\ handles_issued = 0
    /\ ebusy_seen = FALSE
    /\ pc = [t \in Tasks |-> "idle"]
    /\ op = [t \in Tasks |-> None]
    /\ ctrl = [t \in Tasks |-> "app"]
    /\ severity = [t \in Tasks |-> None]
    /\ result = [t \in Tasks |-> "pending"]
    /\ writes = [t \in Tasks |-> <<>>]
    /\ slept = [t \in Tasks |-> 0]
    /\ running = NoTask
    /\ request = [t \in Tasks |-> NoRequest]
    /\ response = [t \in Tasks |-> NoResponse]
    /\ cleaned = {}
    /\ touched = {}
    /\ prev_op = [t \in Tasks |-> None]
    /\ acquired = [t \in Tasks |-> FALSE]
    /\ ready = [t \in Tasks |-> FALSE]
    /\ life = [c \in Controllers |-> "new"]
    /\ calls = [t \in Tasks |-> 0]

\* A caller invokes the methods of one controller one after the other.
Init ==
    /\ Construct
    /\ phase = "direct"
    /\ launch = "none"

Call(o, sev) ==
    /\ phase = "direct"
    /\ pc[MainThread] \in {"idle", "done"}
    /\ Begin(MainThread, o, "app", sev)
    /\ UNCHANGED <<config_vars, hw_vars, ctl_vars, http_vars, running, phase,
                   cleaned>>

Next ==
    \/ \E o \in Ops, sev \in Severities : Call(o, sev)
    \/ Step(MainThread)

Spec == Init /\ [][Next]_vars

----------------------------------------------------------------------------
\* The process: uvicorn serves api.app:app on one event loop thread, then
\* the launch path's shutdown code runs on the main thread.

\* grafana_irm_webhook: "payload.alert_group or AlertGroup()" and the status
\* default of AlertGroup.
group_status(req) ==
    IF req.status = "missing" THEN "firing" ELSE req.status

\* A rule that needs both the event type and the group status to say resolved.
is_resolved_and(req) ==
    req.event_type = "alert_group_resolved" /\ group_status(req) = "resolved"

is_resolved(req) ==
    req.event_type = "alert_group_resolved" \/ group_status(req) = "resolved"

\* The controller method each endpoint's handler calls.
handler_op(req) ==
    CASE req.endpoint = "grafana" -> IF is_resolved(req) THEN "turn_off" ELSE "turn_on"
      [] req.endpoint = "test" -> "turn_on"
      [] req.endpoint = "led_on" -> "turn_on"
      [] req.endpoint = "led_off" -> "turn_off"
      [] req.endpoint = "led_blink" -> "blink"
      [] req.endpoint = "led_status" -> "get_status"

\* The severity in the alert_data the handler passes: the payload's for
\* /webhook/grafana-irm ("warning" when alert_group is missing), "warning"
\* in /webhook/test's synthetic alert, none in the {} of /api/led/*.
handler_severity(req, sev) ==
    CASE req.endpoint = "grafana" -> IF req.status = "missing" THEN "warning" ELSE sev
      [] req.endpoint = "test" -> "warning"
      [] OTHER -> None

\* The handler's answer once the controller call returned r.
handler_response(req, r) ==
    CASE req.endpoint = "grafana" ->
            IF r = "True"
            THEN [code |-> 200,
                  action |-> IF is_resolved(req) THEN "turned off" ELSE "turned on"]
            ELSE [code |-> 500, action |-> None]
      [] req.endpoint = "test" ->
            [code |-> IF r = "True" THEN 200 ELSE 500, action |-> None]
      [] OTHER ->
            [code |-> IF r = "raise" THEN 500 ELSE 200, action |-> None]

ServerInit ==
    /\ Construct
    /\ phase = "serving"
    /\ launch \in {"app_main", "start_py"}

\* A request arrives and waits for the event loop.
Receive(t) ==
    /\ phase = "serving"
    /\ pc[t] = "idle"
    /\ pc' = [pc EXCEPT ![t] = "pending"]
    /\ UNCHANGED <<config_vars, call_vars, hw_vars, ctl_vars, http_vars, op, ctrl, severity,
                   result, writes, slept, running, phase, cleaned>>

\* The free event loop thread takes a ready task: a waiting request, whose
\* handler starts with the parsed payload, or a task that gave the thread up.
Dispatch(t) ==
    /\ phase = "serving"
    /\ running = NoTask
    /\ pc[t] # "idle"
    /\ running' = t
    /\ IF pc[t] = "pending"
       THEN \E req \in HttpRequests, sev \in Severities :
               /\ request' = [request EXCEPT ![t] = req]
               /\ calls' = [calls EXCEPT ![t] = @ + 1]
               /\ Begin(t, handler_op(req), "app", handler_severity(req, sev))
       ELSE UNCHANGED <<request, calls, pc, op, ctrl, severity, result, writes, slept,
                        touched, prev_op, acquired, ready>>
    /\ UNCHANGED <<config_vars, hw_vars, ctl_vars, response, phase, cleaned>>

Respond(t) ==
    /\ running = t
    /\ pc[t] = "done"
    /\ response' = [response EXCEPT ![t] = handler_response(request[t], result[t])]
    /\ pc' = [pc EXCEPT ![t] = "responded"]
    /\ UNCHANGED <<config_vars, call_vars, hw_vars, ctl_vars, request, calls, op, ctrl,
                   severity, result, writes, slept, running, phase, cleaned>>

\* The answer is sent; the task ends and the event loop thread is free.
Finish(t) ==
    /\ running = t
    /\ pc[t] = "responded"
    /\ pc' = [pc EXCEPT ![t] = "idle"]
    /\ op' = [op EXCEPT ![t] = None]
    /\ severity' = [severity EXCEPT ![t] = None]
    /\ result' = [result EXCEPT ![t] = "pending"]
    /\ writes' = [writes EXCEPT ![t] = <<>>]
    /\ slept' = [slept EXCEPT ![t] = 0]
    /\ request' = [request EXCEPT ![t] = NoRequest]
    /\ response' = [response EXCEPT ![t] = NoResponse]
    /\ prev_op' = [prev_op EXCEPT ![t] = None]
    /\ acquired' = [acquired EXCEPT ![t] = FALSE]
    /\ ready' = [ready EXCEPT ![t] = FALSE]
    /\ calls' = [calls EXCEPT ![t] = 0]
    /\ running' = NoTask
    /\ UNCHANGED <<config_vars, touched, hw_vars, ctl_vars, ctrl, phase, cleaned>>

\* uvicorn.run returns, after a signal ("interrupted") or not ("returned"),
\* once no handler occupies the loop; requests still waiting are dropped.
Shutdown(how) ==
    /\ phase = "serving"
    /\ running = NoTask
    /\ \A t \in Requests : pc[t] \in {"idle", "pending"}
    /\ phase' = how
    /\ pc' = [t \in Tasks |-> "idle"]
    /\ UNCHANGED <<config_vars, call_vars, hw_vars, ctl_vars, http_vars, op, ctrl, severity,
                   result, writes, slept, running, cleaned>>

\* app.py run as a script: "finally: lightbulb_controller.cleanup_gpio()",
\* on the controller of module __main__.
Finally ==
    /\ launch = "app_main"
    /\ phase \in {"interrupted", "returned"}
    /\ phase' = "finally"
    /\ Begin(MainThread, "cleanup_gpio", "main", None)
    /\ UNCHANGED <<config_vars, hw_vars, ctl_vars, http_vars, running, cleaned>>

\* start.py has no code after uvicorn.run.
ExitStart ==
    /\ launch = "start_py"
    /\ phase \in {"interrupted", "returned"}
    /\ phase' = "exited"
    /\ line_holder' = NoHandle
    /\ UNCHANGED <<config_vars, call_vars, ctl_vars, http_vars, line_value, handles_issued,
                   ebusy_seen, pc, op, ctrl, severity, result, writes, slept,
                   running, cleaned>>

\* The finally block is over; the process ends and the kernel closes the
\* line requests it still held. The line keeps its last output value.
ExitMain ==
    /\ phase = "finally"
    /\ pc[MainThread] = "done"
    /\ phase' = "exited"
    /\ line_holder' = NoHandle
    /\ UNCHANGED <<config_vars, call_vars, ctl_vars, http_vars, line_value, handles_issued,
                   ebusy_seen, pc, op, ctrl, severity, result, writes, slept,
                   running, cleaned>>

ServerNext ==
    \/ \E t \in Requests : Receive(t) \/ Dispatch(t) \/ Respond(t) \/ Finish(t)
    \/ \E t \in Tasks : Step(t)
    \/ \E how \in {"interrupted", "returned"} : Shutdown(how)
    \/ Finally
    \/ ExitStart
    \/ ExitMain

ServerSpec == ServerInit /\ [][ServerNext]_vars

----------------------------------------------------------------------------
\* Properties.

Finished(t, o) ==
    pc[t] = "done" /\ op[t] = o

\* What get_status() would return on controller c if called now, for each
\* outcome of the hardware read.
StatusNow(c) ==
    {ExceptException(get_status(World(c), rf), "error") : rf \in BOOLEAN}

StatusIfReadWorks(c) ==
    ExceptException(get_status(World(c), FALSE), "error")

\* The hardware writes a control method asks for, in order.
Requested(o) ==
    CASE o = "turn_on" -> <<"ACTIVE">>
      [] o = "turn_off" -> <<"INACTIVE">>
      [] o = "blink" -> <<"ACTIVE", "INACTIVE", "ACTIVE", "INACTIVE">>

\* The value a control method leaves the line at.
Target(o) ==
    IF o = "turn_on" THEN "ACTIVE" ELSE "INACTIVE"

\* C1 as claimed: right after any turn_on call returns, get_status() returns
\* "on", and right after any turn_off call returns, "off".
C1_AsClaimed ==
    \A t \in Tasks :
        /\ Finished(t, "turn_on") => StatusNow(ctrl[t]) = {"on"}
        /\ Finished(t, "turn_off") => StatusNow(ctrl[t]) = {"off"}

\* C1 amended: right after a turn_on call that returned True, get_status()
\* returns "on" when the hardware read works and "error" when it fails; right
\* after a turn_off call that returned True, "off" or, on a read fault, "error".
C1_StatusAfterSuccess ==
    \A t \in Tasks :
        /\ Finished(t, "turn_on") /\ result[t] = "True"
              => /\ StatusIfReadWorks(ctrl[t]) = "on"
                 /\ StatusNow(ctrl[t]) = {"on", "error"}
        /\ Finished(t, "turn_off") /\ result[t] = "True"
              => /\ StatusIfReadWorks(ctrl[t]) = "off"
                 /\ StatusNow(ctrl[t]) = {"off", "error"}

\* A turn_off that succeeded right after a turn_on, on a line requested anew
\* after a cleanup.
C1_Witness ==
    /\ Finished(MainThread, "turn_off")
    /\ result[MainThread] = "True"
    /\ prev_op[MainThread] = "turn_on"
    /\ handles_issued = 2
    /\ line_value = "INACTIVE"

C4_NoExceptionEscapes ==
    \A t \in Tasks : result[t] # "raise"

\* A turn_off whose write failed on a line it holds returned False.
C4_Witness ==
    /\ Finished(MainThread, "turn_off")
    /\ result[MainThread] = "False"
    /\ gpio_initialized["app"]
    /\ line_value = "ACTIVE"

\* C5 as claimed: turn_on, turn_off and blink return True exactly when every
\* hardware write they asked for was performed.
C5_AsClaimed ==
    \A t \in Tasks :
        pc[t] = "done" /\ op[t] \in ControlOps
           => (result[t] = "True" <=> writes[t] = Requested(op[t]))

\* C6 as claimed: with a lightbulb_type other than "raspberry_pi" the line is
\* never requested or written and every control method returns False.
C6_AsClaimed ==
    lightbulb_type # "raspberry_pi"
       => /\ handles_issued = 0
          /\ line_holder = NoHandle
          /\ \A t \in Tasks :
                /\ writes[t] = <<>>
                /\ pc[t] = "done" /\ op[t] \in ControlOps => result[t] = "False"

\* C7 as claimed: when a process whose controller served control requests
\* has exited, cleanup_gpio has run on that controller, which holds no
\* handle, and the line is inactive.
C7_AsClaimed ==
    phase = "exited" /\ "app" \in touched
       => /\ "app" \in cleaned
          /\ ~gpio_initialized["app"]
          /\ gpio_request["app"] = NoHandle
          /\ line_value = "INACTIVE"

InHandler(t) ==
    pc[t] \notin {"idle", "pending"}

MutuallyExclusive ==
    \A t1, t2 \in Requests : InHandler(t1) /\ InHandler(t2) => t1 = t2

\* C8 as claimed: the handlers' controller invocations never overlap, and
\* when one has completed the line is at its target.
C8_AsClaimed ==
    /\ MutuallyExclusive
    /\ \A t \in Requests :
          pc[t] = "done" /\ op[t] \in ControlOps => line_value = Target(op[t])

\* C8 amended: the handlers' controller invocations never overlap, and when
\* one has completed with all the hardware writes it asked for performed, the
\* line is at its target.
C8_Serialized ==
    /\ MutuallyExclusive
    /\ \A t \in Requests :
          pc[t] = "done" /\ op[t] \in ControlOps /\ writes[t] = Requested(op[t])
             => line_value = Target(op[t])

\* A blink has performed its four writes while another request waited.
C8_Witness ==
    \E t1, t2 \in Requests :
        /\ t1 # t2
        /\ Finished(t1, "blink")
        /\ writes[t1] = Requested("blink")
        /\ pc[t2] = "pending"

\* C9 as claimed: the line is never requested while a handle on it is held,
\* and at most one controller holds a handle.
C9_AsClaimed ==
    /\ ~ebusy_seen
    /\ Cardinality({c \in Controllers : gpio_request[c] # NoHandle}) <= 1

\* The table of section 4.1 of the specification: on and off pause in
\* milliseconds, repeats.
SpecPattern(sev) ==
    CASE sev = "critical" -> <<100, 100, 5>>
      [] sev = "high" -> <<200, 200, 3>>
      [] sev = "warning" -> <<500, 500, 2>>
      [] sev = "info" -> <<1000, 500, 1>>
      [] sev = "low" -> <<300, 300, 1>>
      [] OTHER -> <<500, 500, 2>>

\* The pauses of a pattern: an on pause per repeat, an off pause between repeats.
PatternPauses(p) ==
    p[3] * p[1] + (p[3] - 1) * p[2]

\* C10 as claimed: a successful turn_on whose alert carries a severity has
\* run that severity's (on, off, repeats) of the table: its pauses, and an
\* active and an inactive write per repeat before the final active write.
C10_AsClaimed ==
    \A t \in Tasks :
        Finished(t, "turn_on") /\ result[t] = "True" /\ severity[t] # None
           => /\ slept[t] = PatternPauses(SpecPattern(severity[t]))
              /\ Len(writes[t]) = 2 * SpecPattern(severity[t])[3] + 1

\* The writes of a pattern of n repeats followed by the resting write:
\* active, inactive, ..., active, inactive, active.
PatternWrites(n) ==
    [i \in 1 .. 2 * n + 1 |-> IF i % 2 = 1 THEN "ACTIVE" ELSE "INACTIVE"]

\* C11 as claimed: a successful turn_on whose alert carries a severity wrote
\* the line active then inactive once per repeat of that severity's pattern
\* and then active, the write the sequence ends with.
C11_AsClaimed ==
    \A t \in Tasks :
        Finished(t, "turn_on") /\ result[t] = "True" /\ severity[t] # None
           => /\ writes[t] = PatternWrites(SpecPattern(severity[t])[3])
              /\ writes[t][Len(writes[t])] = "ACTIVE"

\* The resolution rule as the claim words it, on the payload as sent.
SentResolved(req) ==
    req.event_type = "alert_group_resolved" \/ req.status = "resolved"

\* C12: once the /webhook/grafana-irm handler has started on an event, it has
\* made exactly one controller call, turn_off when the event's event_type is
\* "alert_group_resolved" or its alert_group.status is "resolved" and turn_on
\* otherwise (a missing event_type or alert_group included), and a 200 answer
\* reports "turned off" for the first and "turned on" for the second.
C12_OneCallByResolution ==
    \A t \in Requests :
        request[t].endpoint = "grafana"
           => /\ calls[t] = 1
              /\ op[t] = IF SentResolved(request[t]) THEN "turn_off" ELSE "turn_on"
              /\ response[t].code = 200
                    => response[t].action = IF SentResolved(request[t])
                                            THEN "turned off" ELSE "turned on"

\* An event with neither event_type nor alert_group was answered 200 "turned
\* on" after one turn_on call that left the line active.
C12_Witness ==
    \E t \in Requests :
        /\ pc[t] = "responded"
        /\ request[t].endpoint = "grafana"
        /\ request[t].event_type = ""
        /\ request[t].status = "missing"
        /\ calls[t] = 1
        /\ op[t] = "turn_on"
        /\ response[t].code = 200
        /\ response[t].action = "turned on"
        /\ line_value = "ACTIVE"

\* The endpoints whose handler calls a control operation of the controller.
ControlEndpoints ==
    {"grafana", "test", "led_on", "led_off", "led_blink"}

\* C13 as claimed: an answered request to an endpoint that calls a control
\* operation was answered 500 if the controller call returned False, was
\* answered 200 only if it returned True, and made the call once.
C13_AsClaimed ==
    \A t \in Requests :
        pc[t] = "responded" /\ request[t].endpoint \in ControlEndpoints
           => /\ result[t] = "False" => response[t].code = 500
              /\ response[t].code = 200 => result[t] = "True"
              /\ calls[t] = 1

\* C14 as claimed: a controller on which cleanup_gpio has run while it held
\* the line stays released: it holds no line request and is not initialized
\* from then on, whatever is called on it, so nothing is written through it.
C14_AsClaimed ==
    \A c \in Controllers :
        life[c] = "released"
           => /\ gpio_request[c] = NoHandle
              /\ ~gpio_initialized[c]
              /\ line_holder = NoHandle

\* C15: in a cleanup_gpio that found its controller ready, the write is
\* attempted while the line request is still held (before the write step
\* nothing is written, and between the write step and the release the request
\* is held and at most the inactive value was written); once the call is over
\* the request is released and gpio_initialized is cleared, also when the
\* write failed; and whatever the call wrote is one inactive value, which is
\* the line's value, so the line is left active only if the write failed.
C15_WriteThenRelease ==
    \A t \in Tasks :
        op[t] = "cleanup_gpio" /\ ready[t]
           => /\ pc[t] = "cleanup"
                    => /\ writes[t] = <<>>
                       /\ gpio_request[ctrl[t]] # NoHandle
              /\ pc[t] = "release"
                    => /\ gpio_initialized[ctrl[t]]
                       /\ gpio_request[ctrl[t]] # NoHandle
                       /\ line_holder = gpio_request[ctrl[t]]
                       /\ writes[t] \in {<<>>, <<"INACTIVE">>}
              /\ pc[t] = "done"
                    => /\ ~gpio_initialized[ctrl[t]]
                       /\ gpio_request[ctrl[t]] = NoHandle
                       /\ line_holder = NoHandle
                       /\ ~acquired[t]
              /\ writes[t] # <<>>
                    => /\ writes[t] = <<"INACTIVE">>
                       /\ line_value = "INACTIVE"
              /\ pc[t] = "done" /\ line_value = "ACTIVE" => writes[t] = <<>>

\* A cleanup_gpio on a ready controller is over whose inactive write failed:
\* the line is still active, the request is released and the flag cleared.
C15_Witness ==
    \E t \in Tasks :
        /\ Finished(t, "cleanup_gpio")
        /\ ready[t]
        /\ writes[t] = <<>>
        /\ line_value = "ACTIVE"
        /\ gpio_request[ctrl[t]] = NoHandle
        /\ ~gpio_initialized[ctrl[t]]
        /\ line_holder = NoHandle

\* The values task t's current call drove the line to, in order: the
\* output_value of the line request it was granted, if it was granted one
\* (a call requests the line before it writes), then its set_value writes.
Driven(t) ==
    IF acquired[t] THEN <<"ACTIVE">> \o writes[t] ELSE writes[t]

\* C16 as claimed: a turn_off or cleanup_gpio call never drives the line
\* active, at no step of the call, the lazy acquisition of the line included.
C16_AsClaimed ==
    \A t \in Tasks :
        op[t] \in {"turn_off", "cleanup_gpio"}
           => \A i \in 1 .. Len(Driven(t)) : Driven(t)[i] # "ACTIVE"

\* task t's current call tried to acquire the line and was refused: gpiod is
\* there, the type is supported, the controller was not ready and no request
\* was granted.
AcquisitionFailed(t) ==
    /\ GPIO_AVAILABLE
    /\ lightbulb_type = "raspberry_pi"
    /\ ~ready[t]
    /\ ~acquired[t]

Apply(o, w, af, wf) ==
    IF o = "turn_on" THEN turn_on(w, af, wf) ELSE turn_off(w, af, wf)

\* C18: a successful turn_on or turn_off call on a ready controller wrote its
\* target value exactly once, was granted no new line request and leaves the
\* controller ready with the line at the target; and the same call made again
\* from there writes the target once more, keeps the same handle and leaves
\* the very same state.
C18_OneWriteStaysReady ==
    \A t \in Tasks :
        /\ Finished(t, "turn_on") \/ Finished(t, "turn_off")
        /\ ready[t]
        /\ result[t] = "True"
        => /\ writes[t] = <<Target(op[t])>>
           /\ ~acquired[t]
           /\ gpio_initialized[ctrl[t]]
           /\ gpio_request[ctrl[t]] # NoHandle
           /\ line_holder = gpio_request[ctrl[t]]
           /\ line_value = Target(op[t])
           /\ \A af \in BOOLEAN :
                 LET again == Apply(op[t], World(ctrl[t]), af, FALSE)
                 IN /\ again.ret = "True"
                    /\ again.wrote = <<Target(op[t])>>
                    /\ again.w = World(ctrl[t])

\* A second turn_on in succession on a ready controller, the line already
\* active, returned True after one more active write.
C18_Witness ==
    \E t \in Tasks :
        /\ Finished(t, "turn_on")
        /\ prev_op[t] = "turn_on"
        /\ ready[t]
        /\ ~acquired[t]
        /\ result[t] = "True"
        /\ writes[t] = <<"ACTIVE">>
        /\ line_value = "ACTIVE"

\* C19: in a blink call whose writes all went through, the k-th write follows
\* k - 1 pauses of one second and the writes made so far are the first of
\* active, inactive, active, inactive; the call is over after three pauses
\* (none follows the fourth write), whatever the severity in its alert data,
\* returns True and leaves the line inactive, so that get_status then
\* returns "off".
C19_BlinkSequence ==
    \A t \in Tasks :
        op[t] = "blink"
           => /\ \A k \in 1 .. 4 :
                    pc[t] = BlinkPcs[k]
                       => /\ slept[t] = (k - 1) * BlinkPause
                          /\ Len(writes[t]) <= k - 1
                          /\ Len(writes[t]) = k - 1
                                => writes[t] = SubSeq(Requested("blink"), 1, k - 1)
              /\ \A k \in 1 .. 3 :
                    pc[t] = SleepPcs[k]
                       => /\ slept[t] = (k - 1) * BlinkPause
                          /\ Len(writes[t]) <= k
                          /\ Len(writes[t]) = k
                                => writes[t] = SubSeq(Requested("blink"), 1, k)
              /\ pc[t] = "done"
                    => /\ slept[t] = 3 * BlinkPause
                       /\ Len(writes[t]) <= 4
                       /\ Len(writes[t]) = 4
                             => /\ writes[t] = <<"ACTIVE", "INACTIVE", "ACTIVE", "INACTIVE">>
                                /\ result[t] = "True"
                                /\ line_value = "INACTIVE"
                                /\ StatusIfReadWorks(ctrl[t]) = "off"

\* A blink called with a critical alert is over after four writes and three
\* pauses, the line inactive.
C19_Witness ==
    \E t \in Tasks :
        /\ Finished(t, "blink")
        /\ severity[t] = "critical"
        /\ writes[t] = <<"ACTIVE", "INACTIVE", "ACTIVE", "INACTIVE">>
        /\ slept[t] = 3 * BlinkPause
        /\ line_value = "INACTIVE"
        /\ StatusIfReadWorks(ctrl[t]) = "off"

\* Controller c is initialized and holds a line request.
IsReady(c) ==
    gpio_initialized[c] /\ gpio_request[c] # NoHandle

\* C20: on every controller, after every step of every operation, under every
\* acquisition, write and read fault, gpio_initialized is True exactly when
\* gpio_request holds a handle; and a get_status call was granted no line
\* request, wrote nothing and left the controller as ready or not as it
\* found it.
C20_FlagIffHandle ==
    /\ \A c \in Controllers : gpio_initialized[c] <=> gpio_request[c] # NoHandle
    /\ \A t \in Tasks :
          op[t] = "get_status"
             => /\ ~acquired[t]
                /\ writes[t] = <<>>
                /\ ready[t] <=> IsReady(ctrl[t])

\* get_status has returned "on" on a controller that holds its second line
\* request, acquired after a cleanup_gpio released the first.
C20_Witness ==
    \E t \in Tasks :
        /\ Finished(t, "get_status")
        /\ result[t] = "on"
        /\ ready[t]
        /\ IsReady(ctrl[t])
        /\ handles_issued = 2
        /\ ctrl[t] \in cleaned

====
